---- MODULE Spec2Model ----
(***************************************************************************)
(* KryptoSpuR: FIFO lot matching and tax estimation (src/KryptoSpuR.py).   *)
(*                                                                         *)
(* The persisted state is the `transactions` table of one user, a sequence *)
(* of rows (type, coin, quantity, price, date) in row-id order.  Every     *)
(* action is one run of the Streamlit script: load_user_data, one handler, *)
(* save_user_data, and the year summary the run ends with.  Quantities and *)
(* prices are integers (multiples of the smallest unit the form accepts),  *)
(* so the arithmetic is exact; dates are day numbers counted from the      *)
(* first day of a non-leap year, so that the year of day d is d \div 365   *)
(* over the years the model uses.                                          *)
(***************************************************************************)
EXTENDS Integers, Sequences, FiniteSets, TLC

VARIABLES
    db,      \* the user's rows of the transactions table, in row-id order
    op,      \* the handler that ran last
    buys,    \* fifo_gain: the frame of buys it was called with
    sell,    \* fifo_gain: the sale it was called with
    ret,     \* fifo_gain: the returned tuple (t_gain, e_gain, updated)
    loc,     \* fifo_gain: its locals at the return (qty, the lots taken)
    tax,     \* estimated_tax(t_gain, salary) of the last submitted sale
    ys,      \* the year summary shown last (year, tg_sum, net_gain)
    sess,    \* two browser sessions of the user: each one's script position
    db0      \* the table before either session of the two submitted

vars == <<db, op, buys, sell, ret, loc, tax, ys, sess, db0>>

----------------------------------------------------------------------------
\* Bounds of the model
MaxTx == 3          \* rows the table may hold before a submission
MaxLots == 3        \* buys handed to fifo_gain when it is checked alone

Coins == {"BTC", "ETH"}
Prices == {1, 2}
Dates == {0, 365}            \* dates entered in the form
LotDates == {0, 1, 365}      \* dates of the rows fifo_gain is checked alone with
Salaries == {0, 50}
Quantities == {1, 2}         \* quantities entered in the form
Years == {d \div 365 : d \in Dates}

None == [none |-> TRUE]

----------------------------------------------------------------------------
\* Helpers
Min(a, b) == IF a <= b THEN a ELSE b

RECURSIVE SumSeq(_)
SumSeq(s) == IF s = <<>> THEN 0 ELSE Head(s) + SumSeq(Tail(s))

SeqsUpTo(S, n) == UNION {[1..k -> S] : k \in 0..n}

Row(t, c, q, p, d) == [type |-> t, coin |-> c, quantity |-> q, price |-> p, date |-> d]

\* pd.to_datetime(df['date']).dt.year
YearOf(d) == d \div 365

----------------------------------------------------------------------------
\* fifo_gain

\* buys.sort_values('date'): the row positions in ascending date order.  The
\* default sort kind is not stable, so rows of equal date come in any order.
SortUnsorted(frame) ==
    {o \in [DOMAIN frame -> DOMAIN frame] :
        \A i, j \in DOMAIN frame : i # j => o[i] # o[j]}
SortByDate(frame) ==
    {o \in [DOMAIN frame -> DOMAIN frame] :
        /\ \A i, j \in DOMAIN frame : i # j => o[i] # o[j]
        /\ \A i, j \in DOMAIN frame : i < j => frame[o[i]].date <= frame[o[j]].date}

\* lot = min(b['quantity'], qty)
LotTaken(bq, qty) == Min(bq, qty)

\* gain = lot * (sell['price'] - b['price'])
LotGain(lot, sp, bp) == lot * (sp - bp)

\* days = (sell['date'] - b['date']).days
HoldingDays(sd, bd) == sd - bd

\* if days >= 365
IsExemptStrict(days) == days > 365
IsExempt(days) == days >= 365

\* b['quantity'] -= lot
LotLeftKept(bq, lot) == bq
LotLeft(bq, lot) == bq - lot

\* if b['quantity'] > 0: rem.append(b)
KeepLotZero(q) == q >= 0
KeepLot(q) == q > 0

\* The loop body for the buy at position k of the frame; st holds the locals.
FifoStep(frame, s, k, st) ==
    LET b == frame[k] IN
    IF st.qty <= 0
    THEN [st EXCEPT !.rem = Append(@, b), !.src = Append(@, k)]
    ELSE LET lot  == LotTaken(b.quantity, st.qty)
             gain == LotGain(lot, s.price, b.price)
             days == HoldingDays(s.date, b.date)
             left == LotLeft(b.quantity, lot)
             keep == KeepLot(left)
         IN [qty    |-> st.qty - lot,
             t_gain |-> IF IsExempt(days) THEN st.t_gain ELSE st.t_gain + gain,
             e_gain |-> IF IsExempt(days) THEN st.e_gain + gain ELSE st.e_gain,
             rem    |-> IF keep THEN Append(st.rem, [b EXCEPT !.quantity = left])
                                ELSE st.rem,
             src    |-> IF keep THEN Append(st.src, k) ELSE st.src,
             taken  |-> Append(st.taken,
                               [idx |-> k, lot |-> lot, gain |-> gain, days |-> days])]

RECURSIVE FifoLoop(_, _, _, _)
FifoLoop(frame, s, order, st) ==
    IF order = <<>> THEN st
    ELSE FifoLoop(frame, s, Tail(order), FifoStep(frame, s, Head(order), st))

\* The locals of fifo_gain when it returns, for the sort order `order`.
FifoLocals(frame, s, order) ==
    FifoLoop(frame, s, order,
             [qty |-> s.quantity, t_gain |-> 0, e_gain |-> 0,
              rem |-> <<>>, src |-> <<>>, taken |-> <<>>])

\* return t_gain, e_gain, pd.DataFrame(rem)
FifoReturn(st) == [t_gain |-> st.t_gain, e_gain |-> st.e_gain, updated |-> st.rem]

\* What the caller cannot see: the unmatched quantity, the lots taken, and
\* for each remaining row the position of the buy it comes from.
FifoHidden(st) == [qty |-> st.qty, taken |-> st.taken, src |-> st.src]

----------------------------------------------------------------------------
\* estimated_tax, in units of 1/100000 of the currency unit:
\* base = gain * 0.25, soli = base * 0.055, return base + soli
estimated_tax_soli(gain, salary) ==
    IF gain <= 0 THEN 0
    ELSE LET base == gain * 25000
             soli == gain * 5500
         IN base + soli
estimated_tax(gain, salary) ==
    IF gain <= 0 THEN 0
    ELSE LET base == gain * 25000
             soli == (base * 55) \div 1000
         IN base + soli

----------------------------------------------------------------------------
\* The script

\* Jahresuebersicht.  Summing is commutative, so the order in which line 194
\* leaves rows of equal date does not show in the sums; `order` is the order
\* fifo_gain's own sort gives the year's buys.
YearRows(df, year) == SelectSeq(df, LAMBDA r : YearOf(r.date) = year)
YearBuys(df, year) == SelectSeq(YearRows(df, year), LAMBDA r : r.type = "Kauf")
YearSells(df, year) == SelectSeq(YearRows(df, year), LAMBDA r : r.type = "Verkauf")

\* The quantity the call with locals st took from the buy at position k.
TakenFrom(st, k) ==
    SumSeq([t \in DOMAIN st.taken |-> IF st.taken[t].idx = k THEN st.taken[t].lot ELSE 0])

\* tg_sum and net_gain are what the summary computes; matched, foreign and
\* used record what its fifo_gain calls did: the portions they took, how
\* many of them from a buy of another coin than the sale's, and per buy of
\* the year the quantity the sales of its own coin took from it.
YearSummary(df, year, order) ==
    LET ybuys  == YearBuys(df, year)
        ysells == YearSells(df, year)
        call   == [i \in DOMAIN ysells |-> FifoLocals(ybuys, ysells[i], order)]
        tg_sum == SumSeq([i \in DOMAIN ysells |-> call[i].t_gain])
        alien(i) == {t \in DOMAIN call[i].taken :
                        ybuys[call[i].taken[t].idx].coin # ysells[i].coin}
    IN IF YearRows(df, year) = <<>>
       THEN [year |-> year, shown |-> FALSE, tg_sum |-> 0, net_gain |-> 0, matched |-> 0,
             foreign |-> 0, used |-> <<>>]
       ELSE [year |-> year, shown |-> TRUE, tg_sum |-> tg_sum,
             net_gain |-> tg_sum + SumSeq([i \in DOMAIN ysells |-> call[i].e_gain]),
             matched |-> SumSeq([i \in DOMAIN ysells |-> Len(call[i].taken)]),
             foreign |-> SumSeq([i \in DOMAIN ysells |-> Cardinality(alien(i))]),
             used |-> [k \in DOMAIN ybuys |->
                        SumSeq([i \in DOMAIN ysells |->
                            IF ysells[i].coin = ybuys[k].coin
                            THEN TakenFrom(call[i], k) ELSE 0])]]

\* The rest of a run once the handler has left the frame df.
Summarize(df) ==
    \E year \in Years : \E order \in SortByDate(YearBuys(df, year)) :
        ys' = YearSummary(df, year, order)

\* Streamlit runs the script once per session and interaction; the
\* sessions share nothing but the database.
Sessions == {1, 2}

Idle == [pc |-> "idle", new |-> None, df |-> <<>>, i |-> 0]

\* Only one session of the user is open.
OneSession == sess = [s \in Sessions |-> Idle] /\ db0 = <<>>

Init ==
    /\ db = <<>>
    /\ op = "start"
    /\ buys = <<>>
    /\ sell = None
    /\ ret = None
    /\ loc = None
    /\ tax = 0
    /\ ys = None
    /\ OneSession

IsCoinBuy(r, coin) == r.coin = coin /\ r.type = "Kauf"

\* df[(df.coin==coin)&(df.type=='Kauf')]
CoinBuys(df, coin) == SelectSeq(df, LAMBDA r : IsCoinBuy(r, coin))

\* df[~((df.coin==coin)&(df.type=='Kauf'))]
NotCoinRows(df, coin) == SelectSeq(df, LAMBDA r : r.coin # coin)
NotCoinBuys(df, coin) == SelectSeq(df, LAMBDA r : ~IsCoinBuy(r, coin))

NoCall == buys' = <<>> /\ sell' = None /\ ret' = None /\ loc' = None /\ tax' = 0

\* The new_tx form submitted with type 'Kauf'.
SubmitKauf ==
    \E coin \in Coins, qty \in Quantities, price \in Prices, t_date \in Dates :
        /\ Len(db) < MaxTx
        /\ db' = Append(db, Row("Kauf", coin, qty, price, t_date))
        /\ op' = "Kauf"
        /\ NoCall
        /\ Summarize(db')
        /\ UNCHANGED <<sess, db0>>

\* The new_tx form submitted with type 'Verkauf'.
SubmitVerkauf ==
    \E coin \in Coins, qty \in Quantities, price \in Prices, t_date \in Dates,
       salary \in Salaries :
        LET new   == Row("Verkauf", coin, qty, price, t_date)
            frame == CoinBuys(db, coin)
        IN \E order \in SortByDate(frame) :
            LET st == FifoLocals(frame, new, order) IN
            /\ Len(db) < MaxTx
            /\ buys' = frame
            /\ sell' = new
            /\ ret' = FifoReturn(st)
            /\ loc' = FifoHidden(st)
            /\ tax' = estimated_tax(st.t_gain, salary)
            /\ db' = Append(NotCoinBuys(db, coin) \o st.rem, new)
            /\ op' = "Verkauf"
            /\ Summarize(db')
            /\ UNCHANGED <<sess, db0>>

\* A run with nothing submitted: the table is loaded and the summary shown.
Rerun ==
    /\ op' = "rerun"
    /\ NoCall
    /\ UNCHANGED <<db, sess, db0>>
    /\ Summarize(db)

Next == SubmitKauf \/ SubmitVerkauf \/ Rerun

Spec == Init /\ [][Next]_vars

----------------------------------------------------------------------------
\* fifo_gain alone: any frame of up to MaxLots buys of one coin, bought at
\* one price, in any row order, and a sale below or above that price.
LotRows == {Row("Kauf", "BTC", q, 2, d) : q \in Quantities, d \in LotDates}
SaleQuantities == {1, 3, 9}
SaleRows == {Row("Verkauf", "BTC", q, p, d) : q \in SaleQuantities, p \in {1, 3},
                                              d \in Dates}

InitFifo ==
    /\ db = <<>>
    /\ op = "start"
    /\ buys \in SeqsUpTo(LotRows, MaxLots)
    /\ sell \in SaleRows
    /\ ret = None
    /\ loc = None
    /\ tax = 0
    /\ ys = None
    /\ OneSession

CallFifoGain ==
    /\ op = "start"
    /\ \E order \in SortByDate(buys), salary \in Salaries :
        LET st == FifoLocals(buys, sell, order) IN
        /\ ret' = FifoReturn(st)
        /\ loc' = FifoHidden(st)
        /\ tax' = estimated_tax(st.t_gain, salary)
    /\ op' = "fifo_gain"
    /\ UNCHANGED <<db, buys, sell, ys, sess, db0>>

NextFifo == CallFifoGain

SpecFifo == InitFifo /\ [][NextFifo]_vars

----------------------------------------------------------------------------
\* fifo_gain called with a row that is no valid sale: fifo_gain takes any
\* row, and the data editor lets any cell of a stored row be overwritten
\* before the year summary hands the row to fifo_gain.
AnyRows == {Row(t, "BTC", q, p, d) : t \in {"Kauf", "Verkauf"}, q \in {-1, 0, 1, 2},
                                     p \in {-1, 0, 2}, d \in Dates}

InitAny ==
    /\ db = <<>>
    /\ op = "start"
    /\ buys \in SeqsUpTo(LotRows, MaxLots - 1)
    /\ sell \in AnyRows
    /\ ret = None
    /\ loc = None
    /\ tax = 0
    /\ ys = None
    /\ OneSession

SpecAny == InitAny /\ [][NextFifo]_vars

----------------------------------------------------------------------------
\* Two sessions of one user submit the new_tx form at the same time. Each
\* runs the script on its own: it loads the table with one SELECT, builds
\* the frame to save, and save_user_data then issues one DELETE and one
\* INSERT per row on a connection that commits every statement by itself,
\* so the statements of the two sessions interleave.
StoredTables == {<<>>, <<Row("Kauf", "BTC", 2, 1, 0)>>}
NewRows == {Row(t, "BTC", q, 1, 0) : t \in {"Kauf", "Verkauf"}, q \in Quantities}

\* The frames the submit handler can build from the loaded df and the form.
Handler(df, new) ==
    IF new.type = "Verkauf"
    THEN {Append(NotCoinBuys(df, new.coin)
                    \o FifoLocals(CoinBuys(df, new.coin), new, order).rem, new) :
            order \in SortByDate(CoinBuys(df, new.coin))}
    ELSE {Append(df, new)}

InitConc ==
    /\ db0 \in StoredTables
    /\ db = db0
    /\ op = "start"
    /\ buys = <<>>
    /\ sell = None
    /\ ret = None
    /\ loc = None
    /\ tax = 0
    /\ ys = None
    /\ sess = [s \in Sessions |-> Idle]

\* load_user_data and the submit handler up to the call of save_user_data.
Load(s) ==
    /\ sess[s].pc = "idle"
    /\ \E new \in NewRows : \E frame \in Handler(db, new) :
        sess' = [sess EXCEPT ![s] = [pc |-> "delete", new |-> new, df |-> frame, i |-> 1]]
    /\ UNCHANGED <<db, op, buys, sell, ret, loc, tax, ys, db0>>

\* save_user_data: the DELETE of the user's rows.
Delete(s) ==
    /\ sess[s].pc = "delete"
    /\ db' = <<>>
    /\ sess' = [sess EXCEPT ![s].pc = "insert"]
    /\ UNCHANGED <<op, buys, sell, ret, loc, tax, ys, db0>>

\* save_user_data: the INSERT of the next row of the frame.
Insert(s) ==
    /\ sess[s].pc = "insert"
    /\ db' = Append(db, sess[s].df[sess[s].i])
    /\ sess' = [sess EXCEPT ![s].i = @ + 1,
                            ![s].pc = IF sess[s].i = Len(sess[s].df) THEN "done" ELSE "insert"]
    /\ UNCHANGED <<op, buys, sell, ret, loc, tax, ys, db0>>

NextConc == \E s \in Sessions : Load(s) \/ Delete(s) \/ Insert(s)

SpecConc == InitConc /\ [][NextConc]_vars

----------------------------------------------------------------------------
\* Properties of one fifo_gain call (SpecFifo)

Called == op = "fifo_gain"

\* The quantity a frame of lots holds.
QtyTotal(frame) == SumSeq([i \in DOMAIN frame |-> frame[i].quantity])

\* The quantity the call took from the lots it passed over.
TakenTotal == SumSeq([i \in DOMAIN loc.taken |-> loc.taken[i].lot])

\* The positions of the buys the call left a remainder of.
Remaining == {loc.src[k] : k \in DOMAIN loc.src}

C2_FifoOrder ==
    Called =>
        \A t \in DOMAIN loc.taken : \A i \in DOMAIN buys :
            (loc.taken[t].lot > 0 /\ buys[i].date < buys[loc.taken[t].idx].date)
                => i \notin Remaining

\* Three lots of three dates, stored newest first, of which the sale
\* reaches the second oldest.
C2_Witness ==
    /\ Called
    /\ Len(buys) = 3
    /\ buys[1].date > buys[2].date /\ buys[2].date > buys[3].date
    /\ Len(loc.taken) = 2
    /\ loc.taken[1].idx = 3 /\ loc.taken[2].idx = 2

\* The gain of the portions taken from lots held 365 days or more
\* (long = TRUE), or less than 365 days (long = FALSE).
GainHeld(long) ==
    SumSeq([i \in DOMAIN loc.taken |->
        LET b == buys[loc.taken[i].idx]
            d == sell.date - b.date
        IN IF (d >= 365) = long THEN loc.taken[i].lot * (sell.price - b.price) ELSE 0])

\* C3 - Exemption boundary: the gain of every portion goes to exactly one
\* of the two sums: to e_gain when the lot was held 365 days or more, to
\* t_gain when it was held less; 365 days is exempt, 364 days is taxable.
C3_ExemptionBoundary ==
    Called =>
        /\ ret.e_gain = GainHeld(TRUE)
        /\ ret.t_gain = GainHeld(FALSE)

\* A sale that took from a lot held exactly 365 days and from one held
\* 364 days, each at a gain.
C3_Witness ==
    /\ Called
    /\ \E i, j \in DOMAIN loc.taken :
        /\ loc.taken[i].days = 365 /\ loc.taken[i].gain > 0
        /\ loc.taken[j].days = 364 /\ loc.taken[j].gain > 0
    /\ ret.e_gain > 0 /\ ret.t_gain > 0

\* C4 - Shortfall reporting: a sale of more than the lots hold (and they
\* hold something) returns a result that carries the unmatched remainder as
\* its shortfall, and what it consumed is exactly what was available.
C4_ShortfallReported ==
    (Called /\ QtyTotal(buys) > 0 /\ sell.quantity > QtyTotal(buys)) =>
        /\ TakenTotal = QtyTotal(buys)
        /\ "shortfall" \in DOMAIN ret
        /\ ret.shortfall = sell.quantity - QtyTotal(buys)

----------------------------------------------------------------------------
\* Properties of the stored table (Spec)

\* C6 - Ledger reproducibility: the buys once stored stay in the table
\* unmodified, whatever is submitted later, so that the lots can be
\* recomputed from the stored history.
C6_BuysKept ==
    [][\A i \in DOMAIN db :
           db[i].type = "Kauf" => \E j \in DOMAIN db' : db'[j] = db[i]]_vars

\* C8 - Lots of earlier years: when the year shown has a sale of a coin and
\* the table holds a buy of that coin dated in an earlier year, bought at
\* another price (and no buy dated in the year shown), the summary matches
\* the sale against that lot.
C8_EarlierYearLots ==
    (/\ op # "start" /\ ys.shown
     /\ YearBuys(db, ys.year) = <<>>
     /\ \E i, j \in DOMAIN db :
            /\ db[i].type = "Verkauf" /\ YearOf(db[i].date) = ys.year
            /\ db[j].type = "Kauf" /\ db[j].coin = db[i].coin
            /\ db[j].price # db[i].price
            /\ YearOf(db[j].date) < ys.year)
        => ys.matched > 0

\* C9 - Lot invariant: every stored lot holds a quantity above 0, and a sale
\* leaves of each lot it returns more than 0 and no more than the lot held
\* before; a lot taken whole is not returned.
C9_LotInvariant ==
    /\ \A i \in DOMAIN db : db[i].type = "Kauf" => db[i].quantity > 0
    /\ op = "Verkauf" =>
        \A k \in DOMAIN ret.updated :
            /\ ret.updated[k].quantity > 0
            /\ ret.updated[k].quantity <= buys[loc.src[k]].quantity

\* A sale that took one lot whole and a part of the next.
C9_Witness ==
    /\ op = "Verkauf"
    /\ Len(ret.updated) < Len(buys)
    /\ \E k \in DOMAIN ret.updated :
        ret.updated[k].quantity < buys[loc.src[k]].quantity

----------------------------------------------------------------------------
\* Properties of a call with an invalid row (SpecAny)

InvalidSale(s) == s.type # "Verkauf" \/ s.quantity <= 0 \/ s.price < 0

\* C10 - Invalid transaction: a call with a row that is no sale, or whose
\* quantity is not positive, or whose price is negative, fails instead of
\* being matched: it takes nothing from the lots.
C10_InvalidRejected ==
    (Called /\ InvalidSale(sell)) => loc.taken = <<>>

----------------------------------------------------------------------------
\* Properties of the year summary (Spec)

Shown == op # "start" /\ ys.shown

\* C11 - Tax of the year: the summary of a year with a taxable gain (drawn
\* from the sales' own coins) carries the estimated tax of the year's
\* summed taxable gain.
C11_YearTax ==
    (Shown /\ ys.foreign = 0 /\ ys.tg_sum > 0) =>
        /\ "estimated_tax" \in DOMAIN ys
        /\ \A salary \in Salaries : ys.estimated_tax = estimated_tax(ys.tg_sum, salary)

\* C12 - Asset independence: a sale is matched only against buys of its own
\* coin, when it is submitted and when the year summary replays it.
C12_AssetIndependence ==
    /\ op = "Verkauf" => \A i \in DOMAIN buys : buys[i].coin = sell.coin
    /\ Shown => ys.foreign = 0

\* C13 - One evolving ledger: over the sales of a year, the sales of a coin
\* take from a buy of that coin no more than the buy holds.
C13_EvolvingLedger ==
    Shown => \A k \in DOMAIN ys.used : ys.used[k] <= YearBuys(db, ys.year)[k].quantity

----------------------------------------------------------------------------
\* Properties of a submitted sale (Spec)

\* The positions of the buys the call took from.
Touched == {loc.taken[t].idx : t \in DOMAIN loc.taken}

\* C14 - Frame of a sale, as the code has it: the rows that are no buys of
\* the sold coin stay as they are, in their order; every buy of the coin the
\* sale did not take from is returned unchanged; a buy it took a part of
\* keeps its price and date; the coin's remaining buys are stored behind
\* the other rows in ascending date order, followed by the sale.
C14_FrameOfSale ==
    [][op' = "Verkauf" =>
        LET others == SelectSeq(db, LAMBDA r : ~(r.coin = sell'.coin /\ r.type = "Kauf"))
            lots   == SelectSeq(db, LAMBDA r : r.coin = sell'.coin /\ r.type = "Kauf")
            upd    == ret'.updated
        IN /\ buys' = lots
           /\ db' = others \o upd \o <<sell'>>
           /\ \A i \in DOMAIN lots :
                i \notin Touched' => \E k \in DOMAIN upd : loc'.src[k] = i /\ upd[k] = lots[i]
           /\ \A k \in DOMAIN upd :
                /\ upd[k].price = lots[loc'.src[k]].price
                /\ upd[k].date = lots[loc'.src[k]].date
                /\ upd[k].coin = lots[loc'.src[k]].coin
           /\ \A j, k \in DOMAIN upd : j < k => upd[j].date <= upd[k].date]_vars

\* A sale that took a part of the coin's older buy, stored behind the
\* newer one, and left the newer one alone.
C14_Witness ==
    /\ op = "Verkauf"
    /\ Len(buys) = 2 /\ buys[1].date > buys[2].date
    /\ Touched = {2}
    /\ loc.src = <<2, 1>>

\* C14 as stated: a buy the sale did not take from keeps its place among
\* the coin's remaining buys (of another date) in the order of the table.
C14_OrderKept ==
    op = "Verkauf" =>
        \A j, k \in DOMAIN loc.src :
            (/\ j < k
             /\ buys[loc.src[j]].date # buys[loc.src[k]].date
             /\ (loc.src[j] \notin Touched \/ loc.src[k] \notin Touched))
                => loc.src[j] < loc.src[k]

----------------------------------------------------------------------------
\* Further properties of one fifo_gain call (SpecFifo)

\* C15 - Of two buys of the same date the call takes from the one stored
\* first: when it has taken from a buy, every buy of that date stored
\* before it has been used up.
C15_TieBreak ==
    Called =>
        \A t \in DOMAIN loc.taken : \A i \in DOMAIN buys :
            (/\ loc.taken[t].lot > 0
             /\ i < loc.taken[t].idx
             /\ buys[i].date = buys[loc.taken[t].idx].date)
                => i \notin Remaining

\* C16 - The call takes only from buys dated on or before the sale: the
\* holding days of every part it takes are not negative.
C16_NoLaterLots ==
    Called =>
        \A t \in DOMAIN loc.taken :
            loc.taken[t].lot > 0 => loc.taken[t].days >= 0

----------------------------------------------------------------------------
\* Properties of two concurrent submissions (SpecConc)

\* How often a row occurs in a table.
Count(df, r) == Cardinality({i \in DOMAIN df : df[i] = r})

\* Two tables hold the same rows, each as often.
SameRows(a, b) ==
    /\ Len(a) = Len(b)
    /\ \A i \in DOMAIN a : Count(a, a[i]) = Count(b, a[i])

\* The tables the two submissions leave when one runs after the other.
SerialOutcomes ==
    UNION {UNION {Handler(mid, sess[b].new) : mid \in Handler(db0, sess[a].new)} :
            <<a, b>> \in {<<1, 2>>, <<2, 1>>}}

BothDone == \A s \in Sessions : sess[s].pc = "done"

\* C17 - When both submissions have been saved, the table holds the rows
\* that one of the two serial orders of the submissions leaves.
C17_Serializable ==
    BothDone => \E out \in SerialOutcomes : SameRows(db, out)

====
